---- MODULE Spec2Model ----
(***************************************************************************)
(* Blog publisher MCP server: the tool registry, the dispatcher, the       *)
(* publish / list / update / delete handlers, the GitHub client and the    *)
(* slug derivation.  The repository holds two servers: the modular one     *)
(* (src/src/types.ts, on top of GitHubClient and TOOLS) and the monolithic *)
(* one (src/src/index.ts, with an inline registry and inline HTTP calls).  *)
(* `build` says which of the two is running.                               *)
(*                                                                         *)
(* Strings the code inspects character by character (titles, filenames,    *)
(* paths) are sequences of one-character strings.                          *)
(***************************************************************************)
EXTENDS Integers, Sequences, FiniteSets, TLC

\* ---------------------------------------------------------------- bounds
\* Longest title the slug specification enumerates.
MaxLen == 4
\* Number of invocations that may be in flight at once.  The transport hands
\* over one request at a time; other writers of the repository are modelled
\* by ExternalWrite.
NumInv == 1
\* Number of publish invocations that race in RaceSpec.
NumRacers == 2
\* Most tags a metadata record carries in FrontSpec.
MaxTags == 2
\* Most entries of a directory listing in ListSpec.
MaxEntries == 2

\* ------------------------------------------------------------ characters
\* One representative per class the slug's regular expressions tell apart:
\* lowercase letter, uppercase letter, digit, whitespace, hyphen, other.
Chars == {"a", "B", "7", " ", "-", "!"}

Whitespace == {" "}

UpperLetters ==
  <<"A", "B", "C", "D", "E", "F", "G", "H", "I", "J", "K", "L", "M",
    "N", "O", "P", "Q", "R", "S", "T", "U", "V", "W", "X", "Y", "Z">>

LowerLetters ==
  <<"a", "b", "c", "d", "e", "f", "g", "h", "i", "j", "k", "l", "m",
    "n", "o", "p", "q", "r", "s", "t", "u", "v", "w", "x", "y", "z">>

Digits == {"0", "1", "2", "3", "4", "5", "6", "7", "8", "9"}

\* [a-z0-9\s-]
SlugAlphabet ==
  {LowerLetters[k] : k \in 1..Len(LowerLetters)} \cup Digits \cup Whitespace \cup {"-"}

LowerChar(c) ==
  IF \E k \in 1..Len(UpperLetters) : UpperLetters[k] = c
  THEN LowerLetters[CHOOSE k \in 1..Len(UpperLetters) : UpperLetters[k] = c]
  ELSE c

RECURSIVE SelectChars(_, _)
SelectChars(s, keep) ==
  IF s = <<>> THEN <<>>
  ELSE IF Head(s) \in keep THEN <<Head(s)>> \o SelectChars(Tail(s), keep)
       ELSE SelectChars(Tail(s), keep)

RECURSIVE DropLeading(_, _)
DropLeading(s, drop) ==
  IF s = <<>> THEN <<>>
  ELSE IF Head(s) \in drop THEN DropLeading(Tail(s), drop) ELSE s

RECURSIVE DropTrailing(_, _)
DropTrailing(s, drop) ==
  IF s = <<>> THEN <<>>
  ELSE IF s[Len(s)] \in drop THEN DropTrailing(SubSeq(s, 1, Len(s) - 1), drop)
       ELSE s

\* s.replace(/[run]+/g, by): every maximal run of characters of `run` becomes `by`.
RECURSIVE ReplaceRuns(_, _, _)
ReplaceRuns(s, run, by) ==
  IF s = <<>> THEN <<>>
  ELSE IF Head(s) \in run
       THEN <<by>> \o ReplaceRuns(DropLeading(Tail(s), run), run, by)
       ELSE <<Head(s)>> \o ReplaceRuns(Tail(s), run, by)

toLowerCase(s) == [k \in 1..Len(s) |-> LowerChar(s[k])]

\* String.prototype.trim: strips leading and trailing whitespace only.
trim(s) == DropTrailing(DropLeading(s, Whitespace), Whitespace)

\* A plausible slip: hyphens collapsed before whitespace is turned into hyphens.
generateFilename_HyphensFirst(t) ==
  trim(ReplaceRuns(ReplaceRuns(SelectChars(toLowerCase(t), SlugAlphabet),
                               {"-"}, "-"),
                   Whitespace, "-"))

generateFilename(t) ==
  trim(ReplaceRuns(ReplaceRuns(SelectChars(toLowerCase(t), SlugAlphabet),
                               Whitespace, "-"),
                   {"-"}, "-"))

RECURSIVE SeqsUpTo(_)
SeqsUpTo(n) ==
  IF n = 0 THEN {<<>>}
  ELSE LET shorter == SeqsUpTo(n - 1)
       IN  shorter \cup {Append(s, c) : s \in {x \in shorter : Len(x) = n - 1}, c \in Chars}

Titles == SeqsUpTo(MaxLen)

\* -------------------------------------------------------------- registry
Builds == {"types", "index"}

\* constants.ts: the advertised tools of the modular server, in order.
TOOLS ==
  <<"publish_blog_post", "get_blog_post", "list_blog_posts",
    "update_blog_post", "delete_blog_post">>

\* index.ts: the tools the monolithic server advertises inline.
InlineTools == <<"publish_blog_post", "list_blog_posts", "update_blog_post">>

Registry(b) == IF b = "types" THEN TOOLS ELSE InlineTools

AdvertisedNames(b) == {Registry(b)[k] : k \in 1..Len(Registry(b))}

\* The case labels of the CallTool switch.
HandledNames(b) ==
  IF b = "types"
  THEN {"publish_blog_post", "list_blog_posts", "update_blog_post", "delete_blog_post"}
  ELSE {"publish_blog_post", "list_blog_posts", "update_blog_post"}

RequestNames == AdvertisedNames("types") \cup {"no_such_tool"}

\* ------------------------------------------------------- paths, documents
BlogDir == <<"s", "r", "c", "/", "b", "l", "o", "g", "/">>

MdExt == <<".", "m", "d">>

DefaultTitle == <<"U", "p", "d", "a", "t", "e", "d", " ", "P", "o", "s", "t">>

\* A plausible slip: the supplied filename is ignored.
PublishBlogPath_IgnoresFilename(a) == BlogDir \o generateFilename(a.title) \o MdExt

\* publishBlogPost: filename ? `${filename}.md` : `${generateFilename(title)}.md`
PublishBlogPath(a) ==
  BlogDir \o (IF a.filename # <<>> THEN a.filename ELSE generateFilename(a.title)) \o MdExt

\* updateBlogPost / deleteBlogPost: `src/blog/${filename}`
BlogPath(a) == BlogDir \o a.filename

\* The document a handler commits: header (here its title line) then body.
createBlogPostContent(metadata, content) == [title |-> metadata.title, body |-> content]

HelloTitle ==
  <<"H", "e", "l", "l", "o", ",", " ", "W", "o", "r", "l", "d", "!", " ", "2", "0", "2", "4">>

PublishArgs ==
  [title : {<<"B">>}, content : {"x"}, filename : {<<>>, <<"a">>}]
    \cup [title : {HelloTitle}, content : {"x"}, filename : {<<>>}]

UpdateArgs ==
  [title : {<<>>}, content : {"", "x"}, filename : {<<"a">> \o MdExt}]
    \cup [title : {<<"B">>}, content : {"", "x"}, filename : {<<"b">> \o MdExt}]

DeleteArgs == [title : {<<>>}, content : {""}, filename : {<<"a">> \o MdExt, <<"b">> \o MdExt}]

NoArgs == [title |-> <<>>, content |-> "", filename |-> <<>>]

Paths == {PublishBlogPath(a) : a \in PublishArgs} \cup {BlogPath(a) : a \in UpdateArgs}

\* ------------------------------------------------------------ remote store
Absent == [absent |-> TRUE]

ExternalDoc == [title |-> <<"e">>, body |-> "ext"]

NoSha == <<>>

\* The content hash: an opaque token, equal exactly for equal content.
Sha(doc) == <<"sha", doc.title, doc.body>>

\* How the remote may answer a GET of path p: a failure other than 404
\* ("error": 5xx, 401, no response) is possible whatever the store holds.
GetOutcomes(s, p) == IF s[p] = Absent THEN {"notFound", "error"} ELSE {"ok", "error"}

\* How the remote may answer a PUT: without sha it creates and is rejected when
\* the file exists; with sha it applies only if sha is the current hash.
PutOutcomes(s, p, sha) ==
  IF sha = NoSha
  THEN IF s[p] = Absent THEN {"ok", "error"} ELSE {"rejected", "error"}
  ELSE IF s[p] # Absent /\ Sha(s[p]) = sha THEN {"ok", "error"} ELSE {"conflict", "error"}

\* ------------------------------------------------------- header, listing
\* An optional field is <<>> when undefined and <<v>> when it holds v.
NoMeta ==
  [title |-> "", author |-> <<>>, description |-> <<>>, tags |-> <<>>, date |-> <<>>,
   image |-> <<>>, imageAlt |-> <<>>, readTime |-> <<>>]

NoListed == [count |-> 0, files |-> <<>>, lines |-> <<>>]

\* JavaScript truthiness of an optional string: undefined and "" are falsy.
Truthy(f) == f # <<>> /\ f[1] # ""

\* The template literal `${pre}${v}${post}`, one line of the header.
Line(pre, v, post) == <<pre, v, post>>

\* A plausible slip: the field is tested against undefined, not for truthiness.
OptionalLine_WhenDefined(pre, f, post) ==
  IF f # <<>> THEN <<Line(pre, f[1], post)>> ELSE <<>>

\* if (metadata.f) { frontmatter.push(`${pre}${metadata.f}${post}`) }
OptionalLine(pre, f, post) == IF Truthy(f) THEN <<Line(pre, f[1], post)>> ELSE <<>>

\* A plausible slip: 'post' is appended only when it is not there yet.
TagsWithPost_Deduplicated(tags) ==
  LET given == IF tags # <<>> THEN tags[1] ELSE <<>>
  IN  IF \E k \in 1..Len(given) : given[k] = "post" THEN given ELSE given \o <<"post">>

\* [...(metadata.tags || []), 'post']
TagsWithPost(tags) == (IF tags # <<>> THEN tags[1] ELSE <<>>) \o <<"post">>

\* formatFrontmatter: the array `frontmatter`, which is returned joined by
\* '\n'.  now is new Date().toISOString().
formatFrontmatter(metadata, now) ==
  LET tags == TagsWithPost(metadata.tags)
  IN  <<Line("---", "", ""), Line("title: ", metadata.title, "")>>
        \o OptionalLine("author: ", metadata.author, "")
        \o OptionalLine("description: ", metadata.description, "")
        \o (IF Len(tags) > 0
            THEN <<Line("tags:", "", "")>> \o [k \in 1..Len(tags) |-> Line("  - ", tags[k], "")]
            ELSE <<>>)
        \o <<Line("date: ", IF Truthy(metadata.date) THEN metadata.date[1] ELSE now, "")>>
        \o OptionalLine("image: ", metadata.image, "")
        \o OptionalLine("imageAlt: \"", metadata.imageAlt, "\"")
        \o OptionalLine("readTime: ", metadata.readTime, "")
        \o <<Line("---", "", ""), Line("", "", "")>>

OptStrings == {<<>>, <<"">>, <<"v">>}

TagNames == {"a", "post"}

RECURSIVE TagSeqsUpTo(_)
TagSeqsUpTo(n) ==
  IF n = 0 THEN {<<>>}
  ELSE LET shorter == TagSeqsUpTo(n - 1)
       IN  shorter \cup {Append(t, c) : t \in {x \in shorter : Len(x) = n - 1}, c \in TagNames}

Metadatas ==
  [title : {"T"}, author : OptStrings, description : OptStrings,
   tags : {<<>>} \cup {<<t>> : t \in TagSeqsUpTo(MaxTags)},
   date : {<<>>, <<"">>, <<"d">>},
   image : OptStrings, imageAlt : OptStrings, readTime : OptStrings]

Clock == {"now"}

\* String.prototype.endsWith
endsWith(s, suffix) ==
  Len(s) >= Len(suffix) /\ SubSeq(s, Len(s) - Len(suffix) + 1, Len(s)) = suffix

\* A plausible slip: the type of the entry is not looked at.
IsMarkdownFile_AnyType(file) == endsWith(file.name, MdExt)

\* file.type === 'file' && file.name.endsWith('.md')
IsMarkdownFile(file) == file.type = "file" /\ endsWith(file.name, MdExt)

RECURSIVE filter(_)
filter(files) ==
  IF files = <<>> THEN <<>>
  ELSE (IF IsMarkdownFile(Head(files)) THEN <<Head(files)>> ELSE <<>>) \o filter(Tail(files))

\* listBlogPosts, from the listing to the response: the entries kept (name
\* and size; path and html_url are copied along and not printed), their
\* number, and the line `- ${name} (${size} bytes)` of each.
listBlogPosts(files) ==
  LET markdownFiles ==
        [k \in 1..Len(filter(files)) |->
           [name |-> filter(files)[k].name, size |-> filter(files)[k].size]]
  IN  [count |-> Len(markdownFiles),
       files |-> markdownFiles,
       lines |-> [k \in 1..Len(markdownFiles) |->
                    <<"- ", markdownFiles[k].name, " (", markdownFiles[k].size, " bytes)">>]]

EntryNames ==
  {<<"a">> \o MdExt, <<"b">> \o MdExt, <<"a", ".", "t", "x", "t">>, <<"a", "m", "d">>,
   <<"a", ".", "M", "D">>}

Entries == [name : EntryNames, type : {"file", "dir"}, size : {0, 7}]

RECURSIVE ListingsUpTo(_)
ListingsUpTo(n) ==
  IF n = 0 THEN {<<>>}
  ELSE LET shorter == ListingsUpTo(n - 1)
       IN  shorter \cup {Append(l, e) : l \in {x \in shorter : Len(x) = n - 1}, e \in Entries}

Listings == ListingsUpTo(MaxEntries)

\* ------------------------------------------------------------------ state
Inv == 1..NumInv

Racers == 1..NumRacers

\* Every invocation some specification runs.
Slots == Inv \cup Racers

VARIABLES
  build,         \* which server is running
  store,         \* remote store: path -> document or Absent
  pc,            \* per invocation: idle, the awaited remote call, or done
  tool,          \* request.params.name
  args,          \* request.params.arguments
  blogPath,      \* the handler's blogPath
  existingFile,  \* the handler's existingFile.sha
  result,        \* success or the ErrorCode of the McpError thrown
  calls,         \* remote calls issued by the invocation, with their answers
  commits,       \* commits the remote applied for the invocation
  disturbed,     \* another writer changed blogPath while the invocation ran
  title,         \* slug derivation: the input
  slug,          \* generateFilename(title)
  again,         \* generateFilename(slug)
  spc,           \* slug derivation: position
  meta,          \* header serialization: the metadata record
  header,        \* formatFrontmatter(meta), as its lines
  fpc,           \* header serialization: position
  listing,       \* list: the directory listing the remote returns
  listed,        \* list: what listBlogPosts reports
  lpc            \* list: position

vars ==
  <<build, store, pc, tool, args, blogPath, existingFile, result, calls, commits,
    disturbed, title, slug, again, spc, meta, header, fpc, listing, listed, lpc>>

slugVars == <<title, slug, again, spc>>

frontVars == <<meta, header, fpc>>

listVars == <<listing, listed, lpc>>

\* What the handlers of the server leave alone.
builderVars == <<slugVars, frontVars, listVars>>

serverVars ==
  <<build, store, pc, tool, args, blogPath, existingFile, result, calls, commits, disturbed>>

ServerInit ==
  /\ build \in Builds
  /\ store = [p \in Paths |-> Absent]
  /\ pc = [i \in Slots |-> "idle"]
  /\ tool = [i \in Slots |-> "none"]
  /\ args = [i \in Slots |-> NoArgs]
  /\ blogPath = [i \in Slots |-> <<>>]
  /\ existingFile = [i \in Slots |-> NoSha]
  /\ result = [i \in Slots |-> "none"]
  /\ calls = [i \in Slots |-> <<>>]
  /\ commits = [i \in Slots |-> 0]
  /\ disturbed = [i \in Slots |-> FALSE]

Init ==
  /\ ServerInit
  /\ title = <<>> /\ slug = <<>> /\ again = <<>> /\ spc = "off"
  /\ meta = NoMeta /\ header = <<>> /\ fpc = "off"
  /\ listing = <<>> /\ listed = NoListed /\ lpc = "off"

\* ------------------------------------------------------- client, catch
\* A remote call as issued: status and ret are filled in when it is answered.
Request(method, path, sha) ==
  [method |-> method, path |-> path, sha |-> sha, status |-> "pending", ret |-> NoSha]

Answered(cs, status, ret) ==
  [cs EXCEPT ![Len(cs)] = [@ EXCEPT !.status = status, !.ret = ret]]

ListDir == <<"s", "r", "c", "/", "b", "l", "o", "g">>

\* The catch block of a handler.  thrown is the ErrorCode of an McpError, or
\* "AxiosError" / "TypeError" for anything else.  The modular publish, update
\* and delete handlers rethrow an McpError; every other catch wraps.
Catch(b, handler, thrown) ==
  IF b = "types" /\ handler # "list_blog_posts" /\ thrown = "InvalidRequest"
  THEN thrown
  ELSE "InternalError"

\* A plausible slip: every failure of the read is taken for "absent".
fileExists_AnyErrorIsAbsent(outcome) == IF outcome = "ok" THEN "true" ELSE "false"

\* GitHubClient.fileExists: true on success, false on 404, rethrow otherwise.
fileExists(outcome) ==
  IF outcome = "ok" THEN "true"
  ELSE IF outcome = "notFound" THEN "false"
  ELSE "throw"

\* The existence check of publishBlogPost: "proceed", or what it throws.
\* Modular: fileExists, then McpError(InvalidRequest) if it is true.
\* Monolithic: the McpError is thrown inside the inner try, whose catch
\* rethrows everything that is not a 404 response.
ExistsCheck(b, outcome) ==
  IF b = "types"
  THEN CASE fileExists(outcome) = "true"  -> "InvalidRequest"
         [] fileExists(outcome) = "false" -> "proceed"
         [] OTHER                         -> "AxiosError"
  ELSE CASE outcome = "ok"       -> "InvalidRequest"
         [] outcome = "notFound" -> "proceed"
         [] OTHER                -> "AxiosError"

\* A plausible slip: a 404 is swallowed and an empty handle returned.
getFile_Swallows404(outcome, doc) ==
  IF outcome = "ok" THEN [thrown |-> "none", sha |-> Sha(doc)]
  ELSE IF outcome = "notFound" THEN [thrown |-> "none", sha |-> NoSha]
  ELSE [thrown |-> "AxiosError", sha |-> NoSha]

\* GitHubClient.getFile (and the inline GET of the monolithic update): the
\* response data on success, the axios error otherwise.
getFile(outcome, doc) ==
  IF outcome = "ok" THEN [thrown |-> "none", sha |-> Sha(doc)]
  ELSE [thrown |-> "AxiosError", sha |-> NoSha]

\* A plausible slip: the create presents a hash, as an update would.
CreateRequest_WithSha(path) == Request("PUT", path, Sha(ExternalDoc))

\* createFile: PUT with message and content, no sha.
CreateRequest(path) == Request("PUT", path, NoSha)

\* A plausible slip: the sha of the file read is left out of the update.
UpdateRequest_NoSha(path, sha) == Request("PUT", path, NoSha)

\* A plausible slip: the update presents a hash kept from an earlier look at
\* the file, not the one just read.
UpdateRequest_OtherSha(path, sha) == Request("PUT", path, Sha(ExternalDoc))

\* updateFile: PUT with message, content and existingFile.sha.
UpdateRequest(path, sha) == Request("PUT", path, sha)

\* The modular updateBlogPost tests content before its read, the monolithic
\* one after it.
ContentCheckedBeforeRead(b) == b = "types"

\* A plausible slip: the response of a successful PUT is read at the wrong
\* place, which throws after the commit was applied.
CommitResult_ThrowsOnSuccess(b, handler, outcome) == Catch(b, handler, "TypeError")

\* What a handler returns once its PUT is answered.
CommitResult(b, handler, outcome) ==
  IF outcome = "ok" THEN "success" ELSE Catch(b, handler, "AxiosError")

\* The methods GitHubClient defines.
ClientMethods == {"fileExists", "getFile", "createFile", "updateFile", "listFiles"}

\* ---------------------------------------------------------------- actions
InFlight(k) == pc[k] \notin {"idle", "done"}

Start(i, name, a, path) ==
  /\ pc[i] = "idle"
  /\ tool' = [tool EXCEPT ![i] = name]
  /\ args' = [args EXCEPT ![i] = a]
  /\ blogPath' = [blogPath EXCEPT ![i] = path]

Finish(i, res) ==
  /\ pc' = [pc EXCEPT ![i] = "done"]
  /\ result' = [result EXCEPT ![i] = res]

\* The remote applies a commit of invocation i to its path.
Commit(i, doc) ==
  /\ store' = [store EXCEPT ![blogPath[i]] = doc]
  /\ commits' = [commits EXCEPT ![i] = @ + 1]
  /\ disturbed' = [k \in Slots |->
       disturbed[k] \/ (k # i /\ InFlight(k) /\ blogPath[k] = blogPath[i])]

\* default: of the switch
CallUnhandled(i, name) ==
  /\ name \notin HandledNames(build)
  /\ Start(i, name, NoArgs, <<>>)
  /\ Finish(i, "MethodNotFound")
  /\ UNCHANGED <<build, store, existingFile, calls, commits, disturbed, builderVars>>

\* case "publish_blog_post", up to the existence check
CallPublish(i, a) ==
  /\ "publish_blog_post" \in HandledNames(build)
  /\ Start(i, "publish_blog_post", a, PublishBlogPath(a))
  /\ pc' = [pc EXCEPT ![i] = "fileExists"]
  /\ calls' = [calls EXCEPT ![i] = <<Request("GET", PublishBlogPath(a), NoSha)>>]
  /\ UNCHANGED <<build, store, existingFile, result, commits, disturbed, builderVars>>

\* the existence check is answered; publishBlogPost goes on to createFile
FileExistsResponds(i) ==
  /\ pc[i] = "fileExists"
  /\ \E outcome \in GetOutcomes(store, blogPath[i]) :
       LET chk == ExistsCheck(build, outcome)
           ret == IF outcome = "ok" THEN Sha(store[blogPath[i]]) ELSE NoSha
           cs  == Answered(calls[i], outcome, ret)
       IN  IF chk = "proceed"
           THEN /\ pc' = [pc EXCEPT ![i] = "createFile"]
                /\ calls' = [calls EXCEPT ![i] = Append(cs, CreateRequest(blogPath[i]))]
                /\ UNCHANGED result
           ELSE /\ Finish(i, Catch(build, tool[i], chk))
                /\ calls' = [calls EXCEPT ![i] = cs]
  /\ UNCHANGED <<build, store, tool, args, blogPath, existingFile, commits, disturbed, builderVars>>

\* createFile is answered; publishBlogPost returns or throws
CreateFileResponds(i) ==
  /\ pc[i] = "createFile"
  /\ \E outcome \in PutOutcomes(store, blogPath[i], calls[i][Len(calls[i])].sha) :
       /\ Finish(i, CommitResult(build, tool[i], outcome))
       /\ calls' = [calls EXCEPT ![i] = Answered(@, outcome, NoSha)]
       /\ IF outcome = "ok"
          THEN Commit(i, createBlogPostContent([title |-> args[i].title], args[i].content))
          ELSE UNCHANGED <<store, commits, disturbed>>
  /\ UNCHANGED <<build, tool, args, blogPath, existingFile, builderVars>>

\* case "update_blog_post", up to the read
CallUpdate(i, a) ==
  /\ "update_blog_post" \in HandledNames(build)
  /\ Start(i, "update_blog_post", a, BlogPath(a))
  /\ IF ContentCheckedBeforeRead(build) /\ a.content = ""
     THEN /\ Finish(i, Catch(build, "update_blog_post", "InvalidRequest"))
          /\ UNCHANGED calls
     ELSE /\ pc' = [pc EXCEPT ![i] = "getFile"]
          /\ calls' = [calls EXCEPT ![i] = <<Request("GET", BlogPath(a), NoSha)>>]
          /\ UNCHANGED result
  /\ UNCHANGED <<build, store, existingFile, commits, disturbed, builderVars>>

\* case "delete_blog_post", up to the read
CallDelete(i, a) ==
  /\ "delete_blog_post" \in HandledNames(build)
  /\ Start(i, "delete_blog_post", a, BlogPath(a))
  /\ pc' = [pc EXCEPT ![i] = "getFile"]
  /\ calls' = [calls EXCEPT ![i] = <<Request("GET", BlogPath(a), NoSha)>>]
  /\ UNCHANGED <<build, store, existingFile, result, commits, disturbed, builderVars>>

\* the read of updateBlogPost is answered; it goes on to updateFile
UpdateReadResponds(i) ==
  /\ pc[i] = "getFile"
  /\ tool[i] = "update_blog_post"
  /\ \E outcome \in GetOutcomes(store, blogPath[i]) :
       LET got == getFile(outcome, store[blogPath[i]])
           cs  == Answered(calls[i], outcome, got.sha)
       IN  /\ existingFile' = [existingFile EXCEPT ![i] = got.sha]
           /\ IF got.thrown # "none"
              THEN /\ Finish(i, Catch(build, tool[i], got.thrown))
                   /\ calls' = [calls EXCEPT ![i] = cs]
              ELSE IF args[i].content = ""
              THEN /\ Finish(i, Catch(build, tool[i], "InvalidRequest"))
                   /\ calls' = [calls EXCEPT ![i] = cs]
              ELSE /\ pc' = [pc EXCEPT ![i] = "updateFile"]
                   /\ calls' = [calls EXCEPT ![i] =
                                  Append(cs, UpdateRequest(blogPath[i], got.sha))]
                   /\ UNCHANGED result
  /\ UNCHANGED <<build, store, tool, args, blogPath, commits, disturbed, builderVars>>

\* updateFile is answered; updateBlogPost returns or throws
UpdateFileResponds(i) ==
  /\ pc[i] = "updateFile"
  /\ \E outcome \in PutOutcomes(store, blogPath[i], calls[i][Len(calls[i])].sha) :
       /\ Finish(i, CommitResult(build, tool[i], outcome))
       /\ calls' = [calls EXCEPT ![i] = Answered(@, outcome, NoSha)]
       /\ IF outcome = "ok"
          THEN Commit(i, createBlogPostContent(
                 [title |-> IF args[i].title # <<>> THEN args[i].title ELSE DefaultTitle],
                 args[i].content))
          ELSE UNCHANGED <<store, commits, disturbed>>
  /\ UNCHANGED <<build, tool, args, blogPath, existingFile, builderVars>>

\* the read of deleteBlogPost is answered; this.github.deleteFile is not a
\* method of GitHubClient, so the call that follows throws a TypeError
DeleteReadResponds(i) ==
  /\ pc[i] = "getFile"
  /\ tool[i] = "delete_blog_post"
  /\ "deleteFile" \notin ClientMethods
  /\ \E outcome \in GetOutcomes(store, blogPath[i]) :
       LET got == getFile(outcome, store[blogPath[i]])
       IN  /\ existingFile' = [existingFile EXCEPT ![i] = got.sha]
           /\ calls' = [calls EXCEPT ![i] = Answered(@, outcome, got.sha)]
           /\ Finish(i, Catch(build, tool[i],
                              IF got.thrown # "none" THEN got.thrown ELSE "TypeError"))
  /\ UNCHANGED <<build, store, tool, args, blogPath, commits, disturbed, builderVars>>

\* case "list_blog_posts", up to listFiles
CallList(i) ==
  /\ "list_blog_posts" \in HandledNames(build)
  /\ Start(i, "list_blog_posts", NoArgs, ListDir)
  /\ pc' = [pc EXCEPT ![i] = "listFiles"]
  /\ calls' = [calls EXCEPT ![i] = <<Request("GET", ListDir, NoSha)>>]
  /\ UNCHANGED <<build, store, existingFile, result, commits, disturbed, builderVars>>

\* listFiles is answered; listBlogPosts returns or throws
ListFilesResponds(i) ==
  /\ pc[i] = "listFiles"
  /\ \E outcome \in {"ok", "notFound", "error"} :
       /\ calls' = [calls EXCEPT ![i] = Answered(@, outcome, NoSha)]
       /\ Finish(i, IF outcome = "ok" THEN "success"
                    ELSE Catch(build, tool[i], "AxiosError"))
  /\ UNCHANGED <<build, store, tool, args, blogPath, existingFile, commits, disturbed, builderVars>>

\* the response (or error) is sent; the invocation's locals are gone
Return(i) ==
  /\ pc[i] = "done"
  /\ pc' = [pc EXCEPT ![i] = "idle"]
  /\ tool' = [tool EXCEPT ![i] = "none"]
  /\ args' = [args EXCEPT ![i] = NoArgs]
  /\ blogPath' = [blogPath EXCEPT ![i] = <<>>]
  /\ existingFile' = [existingFile EXCEPT ![i] = NoSha]
  /\ result' = [result EXCEPT ![i] = "none"]
  /\ calls' = [calls EXCEPT ![i] = <<>>]
  /\ commits' = [commits EXCEPT ![i] = 0]
  /\ disturbed' = [disturbed EXCEPT ![i] = FALSE]
  /\ UNCHANGED <<build, store, builderVars>>

\* someone else (another client of the repository) writes or removes a file
ExternalWrite(p, doc) ==
  /\ doc # store[p]
  /\ store' = [store EXCEPT ![p] = doc]
  /\ disturbed' = [k \in Slots |-> disturbed[k] \/ (InFlight(k) /\ blogPath[k] = p)]
  /\ UNCHANGED <<build, pc, tool, args, blogPath, existingFile, result, calls, commits, builderVars>>

Next ==
  \/ \E i \in Inv, name \in RequestNames : CallUnhandled(i, name)
  \/ \E i \in Inv, a \in PublishArgs : CallPublish(i, a)
  \/ \E i \in Inv : FileExistsResponds(i)
  \/ \E i \in Inv : CreateFileResponds(i)
  \/ \E i \in Inv, a \in UpdateArgs : CallUpdate(i, a)
  \/ \E i \in Inv : UpdateReadResponds(i)
  \/ \E i \in Inv : UpdateFileResponds(i)
  \/ \E i \in Inv, a \in DeleteArgs : CallDelete(i, a)
  \/ \E i \in Inv : DeleteReadResponds(i)
  \/ \E i \in Inv : CallList(i)
  \/ \E i \in Inv : ListFilesResponds(i)
  \/ \E i \in Inv : Return(i)
  \/ \E p \in Paths, doc \in {Absent, ExternalDoc} : ExternalWrite(p, doc)

Spec == Init /\ [][Next]_vars

\* ------------------------------------------------------- slug derivation
SlugInit ==
  /\ ServerInit
  /\ title \in Titles
  /\ slug = <<>> /\ again = <<>> /\ spc = "title"
  /\ meta = NoMeta /\ header = <<>> /\ fpc = "off"
  /\ listing = <<>> /\ listed = NoListed /\ lpc = "off"

DeriveSlug ==
  /\ spc = "title"
  /\ slug' = generateFilename(title)
  /\ spc' = "slug"
  /\ UNCHANGED <<title, again, serverVars, frontVars, listVars>>

RederiveSlug ==
  /\ spc = "slug"
  /\ again' = generateFilename(slug)
  /\ spc' = "again"
  /\ UNCHANGED <<title, slug, serverVars, frontVars, listVars>>

SlugNext == DeriveSlug \/ RederiveSlug

SlugSpec == SlugInit /\ [][SlugNext]_vars

\* ------------------------------------------------------------ properties
Done(i) == pc[i] = "done"

Mutating(c) == c.method \in {"PUT", "DELETE"}

NoMutatingCall(i) == \A k \in 1..Len(calls[i]) : ~Mutating(calls[i][k])

\* The first remote call of invocation i was answered with status st.
FirstAnswer(i, st) == Len(calls[i]) >= 1 /\ calls[i][1].status = st

\* C1: a publish_blog_post invocation whose existence check finds the file
\* fails with InvalidRequest (no other error type) and issues no create.
C1_ExistingPathInvalidRequest ==
  \A i \in Inv :
    (tool[i] = "publish_blog_post" /\ FirstAnswer(i, "ok"))
      => (Done(i) /\ result[i] = "InvalidRequest" /\ NoMutatingCall(i))

\* C2: an update_blog_post invocation without content fails with
\* InvalidRequest and has issued no remote call at all.
C2_NoContentInvalidRequest ==
  \A i \in Inv :
    (tool[i] = "update_blog_post" /\ args[i].content = "")
      => (calls[i] = <<>> /\ (Done(i) => result[i] = "InvalidRequest"))

\* C3: the hash an update or delete sends with its mutating call is the hash
\* its read of the same path returned, and that read is the call just before.
C3_MutationCarriesReadHash ==
  \A i \in Inv : \A k \in 1..Len(calls[i]) :
    (tool[i] \in {"update_blog_post", "delete_blog_post"} /\ Mutating(calls[i][k]))
      => /\ k > 1
         /\ calls[i][k - 1].method = "GET"
         /\ calls[i][k - 1].status = "ok"
         /\ calls[i][k - 1].path = calls[i][k].path
         /\ calls[i][k].sha = calls[i][k - 1].ret
         /\ calls[i][k].sha # NoSha

C3_UpdateReachedItsPut ==
  \E i \in Inv :
    /\ tool[i] = "update_blog_post"
    /\ Len(calls[i]) = 2
    /\ calls[i][2].method = "PUT"
    /\ calls[i][2].sha = Sha(ExternalDoc)

\* C4: a delete_blog_post of a path that exists and that nobody else touches
\* reads, then deletes with the hash read, leaves the file absent and
\* returns success.
C4_DeleteRemovesFile ==
  \A i \in Inv :
    (tool[i] = "delete_blog_post" /\ Done(i) /\ FirstAnswer(i, "ok") /\ ~disturbed[i])
      => /\ result[i] = "success"
         /\ Len(calls[i]) = 2
         /\ calls[i][2].method = "DELETE"
         /\ calls[i][2].sha = calls[i][1].ret
         /\ store[blogPath[i]] = Absent

\* C5: the advertised names are exactly the names the dispatcher routes: an
\* invocation ends in MethodNotFound if and only if its name is not advertised.
C5_RegistryMatchesDispatcher ==
  \A i \in Inv :
    Done(i) => (tool[i] \in AdvertisedNames(build) <=> result[i] # "MethodNotFound")

\* C6: a publish, update or delete that returns success caused exactly one
\* commit (the create or the update it ended with); one that returns an error
\* caused none, so the store is as it would be without it.
C6_OneCommitOrNone ==
  \A i \in Inv :
    (tool[i] \in {"publish_blog_post", "update_blog_post", "delete_blog_post"} /\ Done(i))
      => IF result[i] = "success"
         THEN /\ commits[i] = 1
              /\ Len(calls[i]) = 2
              /\ Mutating(calls[i][2]) /\ calls[i][2].status = "ok"
              /\ (calls[i][2].sha = NoSha) = (tool[i] = "publish_blog_post")
         ELSE /\ commits[i] = 0
              /\ \A k \in 1..Len(calls[i]) : Mutating(calls[i][k]) => calls[i][k].status # "ok"

C6_UpdateCommitted ==
  \E i \in Inv :
    /\ Done(i) /\ tool[i] = "update_blog_post" /\ result[i] = "success"
    /\ commits[i] = 1
    /\ store[blogPath[i]] = createBlogPostContent([title |-> DefaultTitle], "x")

\* C7 (as stated): an update with content, or a delete, whose read finds the
\* path absent fails with an error of the NotFound kind and issues no
\* mutating call.
C7_AbsentPathNotFound ==
  \A i \in Inv :
    (/\ tool[i] \in {"update_blog_post", "delete_blog_post"}
     /\ tool[i] = "update_blog_post" => args[i].content # ""
     /\ FirstAnswer(i, "notFound"))
      => (Done(i) /\ result[i] = "NotFound" /\ NoMutatingCall(i))

\* C7 (amended): an update with content, or a delete, whose read finds the
\* path absent fails with an InternalError (the handler's catch wraps the
\* remote's 404) and issues no mutating call.
C7_AbsentPathInternalError ==
  \A i \in Inv :
    (/\ tool[i] \in {"update_blog_post", "delete_blog_post"}
     /\ tool[i] = "update_blog_post" => args[i].content # ""
     /\ FirstAnswer(i, "notFound"))
      => (Done(i) /\ result[i] = "InternalError" /\ NoMutatingCall(i))

C7_UpdateOfAbsentPath ==
  \E i \in Inv :
    /\ tool[i] = "update_blog_post" /\ args[i].content # "" /\ FirstAnswer(i, "notFound")
    /\ Done(i) /\ result[i] = "InternalError"

\* C8: the existence check is false only on a 404 and true only when the read
\* succeeds; on any other failure it raises, and the publish then ends in an
\* error without a create.
C8_ExistsCheckPropagatesFailure ==
  \A i \in Inv :
    (tool[i] = "publish_blog_post" /\ Len(calls[i]) >= 1 /\ calls[i][1].status # "pending")
      => LET st == calls[i][1].status
         IN  /\ (fileExists(st) = "false") = (st = "notFound")
             /\ (fileExists(st) = "true") = (st = "ok")
             /\ (fileExists(st) = "throw") = (st = "error")
             /\ st = "notFound" => (Len(calls[i]) = 2 /\ calls[i][2].sha = NoSha)
             /\ st # "notFound" =>
                  (Done(i) /\ result[i] \in {"InvalidRequest", "InternalError"}
                   /\ NoMutatingCall(i))

C8_ExistsCheckFailed ==
  \E i \in Inv :
    /\ build = "types"
    /\ tool[i] = "publish_blog_post" /\ FirstAnswer(i, "error")
    /\ Done(i) /\ result[i] = "InternalError"

\* C9: deriving the slug of a slug gives the slug back.
C9_SlugIdempotent == spc = "again" => again = slug

C9_SlugOfChangedTitle ==
  spc = "again" /\ slug # title /\ Len(slug) >= 3 /\ \E k \in 1..Len(slug) : slug[k] = "-"

\* C10: a derived slug holds only a-z, 0-9 and hyphens, has no two adjacent
\* hyphens, and neither starts nor ends with a hyphen.
C10_SlugWellFormed ==
  spc \in {"slug", "again"} =>
    /\ \A k \in 1..Len(slug) : slug[k] \in {"a", "b", "7", "-"}
    /\ \A k \in 1..(Len(slug) - 1) : ~(slug[k] = "-" /\ slug[k + 1] = "-")
    /\ slug # <<>> => (slug[1] # "-" /\ slug[Len(slug)] # "-")

\* src/blog/hello-world-2024.md
HelloPath ==
  <<"s", "r", "c", "/", "b", "l", "o", "g", "/",
    "h", "e", "l", "l", "o", "-", "w", "o", "r", "l", "d", "-", "2", "0", "2", "4",
    ".", "m", "d">>

\* C11: the existence check and the create of a publish both address
\* src/blog/<filename>.md when a filename is supplied and
\* src/blog/<slug of title>.md otherwise; "Hello, World! 2024" without a
\* filename gives src/blog/hello-world-2024.md.
C11_PublishPath ==
  \A i \in Inv :
    tool[i] = "publish_blog_post" =>
      /\ Len(calls[i]) >= 1 /\ calls[i][1].method = "GET"
      /\ Len(calls[i]) >= 2 => calls[i][2].method = "PUT"
      /\ \A k \in 1..Len(calls[i]) :
           /\ args[i].filename # <<>> =>
                calls[i][k].path = BlogDir \o args[i].filename \o <<".", "m", "d">>
           /\ args[i].filename = <<>> =>
                calls[i][k].path = BlogDir \o generateFilename(args[i].title) \o <<".", "m", "d">>
           /\ (args[i].filename = <<>> /\ args[i].title = HelloTitle) =>
                calls[i][k].path = HelloPath

C11_HelloWorldCreated ==
  \E i \in Inv :
    /\ tool[i] = "publish_blog_post" /\ args[i].title = HelloTitle /\ args[i].filename = <<>>
    /\ Len(calls[i]) = 2 /\ calls[i][2].status = "ok"
    /\ store[HelloPath] # Absent

\* ---------------------------------------------------- header serialization
FrontInit ==
  /\ ServerInit
  /\ title = <<>> /\ slug = <<>> /\ again = <<>> /\ spc = "off"
  /\ meta \in Metadatas /\ header = <<>> /\ fpc = "meta"
  /\ listing = <<>> /\ listed = NoListed /\ lpc = "off"

FormatHeader ==
  /\ fpc = "meta"
  /\ \E now \in Clock : header' = formatFrontmatter(meta, now)
  /\ fpc' = "header"
  /\ UNCHANGED <<meta, serverVars, slugVars, listVars>>

FrontNext == FormatHeader

FrontSpec == FrontInit /\ [][FrontNext]_vars

\* The values of the lines of h that start with pre, in order.
RECURSIVE ValuesOf(_, _)
ValuesOf(h, pre) ==
  IF h = <<>> THEN <<>>
  ELSE (IF Head(h)[1] = pre THEN <<Head(h)[2]>> ELSE <<>>) \o ValuesOf(Tail(h), pre)

Positions(h, pre) == {k \in 1..Len(h) : h[k][1] = pre}

SuppliedTags == IF meta.tags = <<>> THEN <<>> ELSE meta.tags[1]

\* C12: the header holds one tags block: a `tags:` line followed directly by
\* one entry per supplied tag, in the given order, then one `post` entry,
\* nothing de-duplicated.  No tags give exactly `post`; ["a","post"] gives
\* a, post, post.
C12_TagsThenPost ==
  fpc = "header" =>
    LET want == SuppliedTags \o <<"post">>
    IN  /\ Cardinality(Positions(header, "tags:")) = 1
        /\ ValuesOf(header, "  - ") = want
        /\ \A k \in Positions(header, "tags:") :
             \A j \in 1..Len(want) :
               k + j <= Len(header) /\ header[k + j] = <<"  - ", want[j], "">>
        /\ SuppliedTags = <<>> => ValuesOf(header, "  - ") = <<"post">>
        /\ SuppliedTags = <<"a", "post">> => ValuesOf(header, "  - ") = <<"a", "post", "post">>

C12_SuppliedPostListedTwice ==
  /\ fpc = "header"
  /\ meta.tags = <<(<<"a", "post">>)>>
  /\ ValuesOf(header, "  - ") = <<"a", "post", "post">>

\* The line prefixes in the order the header must show them; the optional
\* ones with the field they print and what follows the value.
FieldOrder ==
  <<"---", "title: ", "author: ", "description: ", "tags:", "date: ",
    "image: ", "imageAlt: \"", "readTime: ">>

OptionalFields ==
  {<<"author: ", meta.author, "">>, <<"description: ", meta.description, "">>,
   <<"image: ", meta.image, "">>, <<"imageAlt: \"", meta.imageAlt, "\"">>,
   <<"readTime: ", meta.readTime, "">>}

\* C13: author, description, image, imageAlt and readTime each have a line
\* exactly when the field is present and non-empty; the tags block and the
\* date line are always there; the lines stand in the order title, author,
\* description, tags, date, image, imageAlt, readTime between the markers.
C13_OptionalFieldsAndOrder ==
  fpc = "header" =>
    /\ \A f \in OptionalFields :
         /\ (Positions(header, f[1]) # {}) = (f[2] # <<>> /\ f[2][1] # "")
         /\ \A k \in Positions(header, f[1]) : header[k] = <<f[1], f[2][1], f[3]>>
    /\ Cardinality(Positions(header, "tags:")) = 1
    /\ Cardinality(Positions(header, "date: ")) = 1
    /\ Cardinality(Positions(header, "title: ")) = 1
    /\ header[1] = <<"---", "", "">>
    /\ header[Len(header) - 1] = <<"---", "", "">>
    /\ Positions(header, "---") = {1, Len(header) - 1}
    /\ \A a, b \in 2..Len(FieldOrder) :
         a < b => \A ka \in Positions(header, FieldOrder[a]) :
                    \A kb \in Positions(header, FieldOrder[b]) :
                      ka < kb /\ kb < Len(header) - 1
    /\ \A k \in Positions(header, "  - ") :
         \A kt \in Positions(header, "tags:") : \A kd \in Positions(header, "date: ") :
           kt < k /\ k < kd

C13_EmptyImageOmitted ==
  /\ fpc = "header"
  /\ meta.image = <<"">> /\ meta.author = <<"v">> /\ meta.readTime = <<"v">>
  /\ meta.imageAlt = <<>>
  /\ Positions(header, "image: ") = {}
  /\ Positions(header, "author: ") # {}

\* ------------------------------------------------------------------ list
ListInit ==
  /\ ServerInit
  /\ title = <<>> /\ slug = <<>> /\ again = <<>> /\ spc = "off"
  /\ meta = NoMeta /\ header = <<>> /\ fpc = "off"
  /\ listing \in Listings /\ listed = NoListed /\ lpc = "listFiles"

\* listFiles returned `listing`; listBlogPosts builds its response
ListBlogPostsReturns ==
  /\ lpc = "listFiles"
  /\ listed' = listBlogPosts(listing)
  /\ lpc' = "done"
  /\ UNCHANGED <<listing, serverVars, slugVars, frontVars>>

ListNext == ListBlogPostsReturns

ListSpec == ListInit /\ [][ListNext]_vars

\* The entry is a file whose name ends with the three characters ".md".
WantedEntry(e) ==
  /\ e.type = "file"
  /\ Len(e.name) >= 3
  /\ e.name[Len(e.name) - 2] = "." /\ e.name[Len(e.name) - 1] = "m" /\ e.name[Len(e.name)] = "d"

\* C14: the list result holds exactly the entries of the remote listing that
\* are files named *.md, in the remote order, with a count equal to their
\* number and each size as the remote gave it.
C14_ListKeepsMarkdownFiles ==
  lpc = "done" =>
    LET want == SelectSeq(listing, WantedEntry)
    IN  /\ listed.count = Cardinality({k \in 1..Len(listing) : WantedEntry(listing[k])})
        /\ Len(listed.files) = Len(want)
        /\ Len(listed.lines) = Len(want)
        /\ \A k \in 1..Len(want) :
             /\ listed.files[k].name = want[k].name
             /\ listed.files[k].size = want[k].size
             /\ listed.lines[k] = <<"- ", want[k].name, " (", want[k].size, " bytes)">>

C14_MixedListing ==
  /\ lpc = "done"
  /\ Len(listing) = 2
  /\ listing[1].type = "dir" /\ listing[1].name = <<"a", ".", "m", "d">>
  /\ listing[2].type = "file" /\ listing[2].name = <<"b", ".", "m", "d">> /\ listing[2].size = 7
  /\ listed.count = 1 /\ listed.files[1].size = 7

\* ------------------------------------------------------- racing publishes
\* The racing clients publish under one title, with or without a filename.
RaceArgs == {a \in PublishArgs : a.title = <<"B">>}

RacePaths == {PublishBlogPath(a) : a \in RaceArgs}

RaceNext ==
  \/ \E i \in Racers, a \in RaceArgs : CallPublish(i, a)
  \/ \E i \in Racers : FileExistsResponds(i)
  \/ \E i \in Racers : CreateFileResponds(i)
  \/ \E i \in Racers : Return(i)
  \/ \E p \in RacePaths, doc \in {Absent, ExternalDoc} : ExternalWrite(p, doc)

RaceSpec == Init /\ [][RaceNext]_vars

\* C15: when the remote answers an update's PUT, the commit is applied only
\* if the path's hash at that moment is the hash the handler read; if the
\* path changed in between, the invocation fails, issues no further call,
\* and the store keeps what the intervening writer left.
C15_NoLostUpdate ==
  [][\A i \in Inv :
       (tool[i] = "update_blog_post" /\ pc[i] = "updateFile" /\ pc'[i] = "done") =>
         LET p == blogPath[i]
             unchangedSinceRead ==
               IF store[p] = Absent THEN FALSE ELSE Sha(store[p]) = calls[i][1].ret
         IN  /\ result'[i] = "success" => unchangedSinceRead
             /\ store'[p] # store[p] => unchangedSinceRead
             /\ ~unchangedSinceRead =>
                  /\ result'[i] \notin {"success", "none"}
                  /\ store' = store
                  /\ commits'[i] = 0
                  /\ Len(calls'[i]) = 2
                  /\ ~(calls'[i][2].status \in {"ok", "pending"})]_vars

C15_StaleUpdateRejected ==
  \E i \in Inv :
    /\ Done(i) /\ tool[i] = "update_blog_post" /\ result[i] = "InternalError"
    /\ Len(calls[i]) = 2 /\ calls[i][2].status = "conflict"
    /\ calls[i][1].ret # Sha(ExternalDoc)
    /\ disturbed[i]
    /\ store[blogPath[i]] = ExternalDoc

\* C16: when the remote answers a publish's create, a file that exists at the
\* path is never replaced: the create is rejected and the invocation fails.
\* A create succeeds only on an absent path and leaves the file present, so a
\* second publish racing on the path cannot succeed against it.
C16_CreateNeverReplaces ==
  [][\A i \in Racers :
       (tool[i] = "publish_blog_post" /\ pc[i] = "createFile" /\ pc'[i] = "done") =>
         LET p == blogPath[i]
         IN  /\ store[p] # Absent =>
                  /\ result'[i] \notin {"success", "none"}
                  /\ store' = store
                  /\ commits'[i] = 0
             /\ result'[i] = "success" =>
                  /\ store[p] = Absent
                  /\ store'[p] # Absent
                  /\ commits'[i] = 1]_vars

C16_RacerRejected ==
  \E i, j \in Racers :
    /\ i # j /\ blogPath[i] = blogPath[j]
    /\ Done(i) /\ tool[i] = "publish_blog_post" /\ result[i] = "success"
    /\ Done(j) /\ tool[j] = "publish_blog_post" /\ result[j] = "InternalError"
    /\ Len(calls[j]) = 2 /\ calls[j][2].status = "rejected"
    /\ disturbed[j]
    /\ store[blogPath[i]] = createBlogPostContent([title |-> args[i].title], args[i].content)

====
